---- MODULE Spec2Model ----
(***************************************************************************)
(* A model of the httpctl forwarding proxy: the size-classed buffer pools  *)
(* (core/buffer_pool.go) and the request lifecycle of HttpProxy.ServeHTTP  *)
(* with its request adapter modifyRequest (package proxy).                 *)
(*                                                                         *)
(* Payloads are sequences of units.  A unit stands for a run of bytes: the *)
(* unit "gz" is a well-formed gzip member header, the unit "x" is any      *)
(* other run of bytes.  Texts (header values, error messages) are          *)
(* sequences of string tokens, so that joining and formatting are          *)
(* computed and not assumed.                                               *)
(***************************************************************************)
EXTENDS Integers, Sequences, FiniteSets, TLC

\* ------------------------------------------------------------------ bounds
\* Request tasks (goroutines running ServeHTTP) that may be in flight at once.
NumTasks == 2
\* Other users of the process-wide pools (the pool-only specification).
NumClients == 2
\* Buffer objects that can be alive at once, per size class.
MaxBufs == 3
\* Longest upstream body, in units.
MaxBody == 2
\* Most units a pool client writes into a borrowed buffer.
MaxWrite == 1
\* Requests one task serves before the model stops feeding it.
MaxRequests == 1
\* Requests all tasks together serve in the concurrent specification.
MaxServed == 2
\* Longest address list the resolver returns.
MaxIps == 2

\* ------------------------------------------------------- program constants
Size1k == 1024
Size2k == 2048
Size4k == 4096
Size8k == 8192
StatusInternalServerError == 500
StatusOK == 200
\* net/http's client gives up after this many requests for one Do.
MaxRedirects == 10

Tasks == 1..NumTasks
Clients == 1..NumClients
BufIds == 1..MaxBufs
SizeClasses == {Size1k, Size2k, Size4k, Size8k}
Units == {"gz", "x"}

RECURSIVE SeqsUpTo(_, _)
SeqsUpTo(S, n) ==
    IF n = 0 THEN {<<>>}
    ELSE LET shorter == SeqsUpTo(S, n - 1)
         IN  shorter \cup {Append(s, e) : s \in {q \in shorter : Len(q) = n - 1}, e \in S}

Payloads == SeqsUpTo(Units, MaxBody)

\* ------------------------------------------------------------ bytes.Buffer
\* A bytes.Buffer: the slice buf, the read offset off, and the capacity of
\* the backing array.  NoBuf is the nil *bytes.Buffer / an unallocated slot.
NoBuf == [buf |-> <<>>, off |-> -1, cap |-> 0]

\* make([]byte, size): size zero bytes.
make(size) == [i \in 1..size |-> "0"]

\* bytes.NewBuffer(s): the buffer's contents are s.
NewBuffer(s) == [buf |-> s, off |-> 0, cap |-> Len(s)]

\* (*bytes.Buffer).Len: the unread portion.
BufLen(b) == Len(b.buf) - b.off

\* (*bytes.Buffer).Bytes / the unread units.
Unread(b) == SubSeq(b.buf, b.off + 1, Len(b.buf))

\* (*bytes.Buffer).Reset: truncate to zero length, keep the storage.
Reset(b) == [b EXCEPT !.buf = <<>>, !.off = 0]

\* (*bytes.Buffer).Write: append p, growing the storage when needed.
BufWrite(b, p) ==
    LET nb == b.buf \o p
    IN  [b EXCEPT !.buf = nb, !.cap = IF Len(nb) > b.cap THEN Len(nb) ELSE b.cap]

\* (*bytes.Buffer).Read of n units: the units and the buffer afterwards.
BufRead(b, n) ==
    LET k == IF n < BufLen(b) THEN n ELSE BufLen(b)
    IN  [data |-> SubSeq(b.buf, b.off + 1, b.off + k),
         b    |-> [b EXCEPT !.off = b.off + k]]

\* --------------------------------------------------------------- state
VARIABLES
    bufs,        \* bufs[size][id]: the buffer objects of a size class
    pools,       \* pools[size]: ids of the buffers the sync.Pool holds
    borrowed,    \* borrowed[c]: what pool client c holds, or NoLoan
    pbuffer,     \* HttpProxy.buffer: id of the buffer taken at construction
    pc,          \* pc[t]: lifecycle state of the request task t is serving
    served,      \* served[t]: requests task t has accepted so far
    r,           \* r[t]: the inbound request
    req,         \* req[t]: the adapted outbound request (the clone)
    response,    \* response[t]: the upstream response
    resolved,    \* resolved[t]: what resolver.Get returned (kept until streaming starts)
    err,         \* err[t]: ServeHTTP's local err (<<>> is nil)
    sent,        \* sent[t]: the authorities the upstream requests of this request went to
    w,           \* w[t]: what the client's ResponseWriter has been given
    buffer,      \* buffer[t]: ServeHTTP's local buffer (0 is nil)
    nread,       \* nread[t]: units of the upstream body read so far
    copyErr,     \* copyErr[t]: how io.Copy ended
    reader,      \* reader[t]: the body reader handed to the handler
    gets,        \* gets[t]: BufferPool4k.Get calls of this request
    puts,        \* puts[t]: BufferPool4k.Put calls of this request
    handlerCalls,\* handlerCalls[t]: invocations of execute.Handler
    ctx          \* ctx[t]: the core.Context given to the handler and what it read

poolVars == <<bufs, pools>>

NoLoan == [size |-> 0, id |-> 0, fresh |-> FALSE]

\* makeBuffer (buffer_pool.go): a buffer of the given capacity, reset.
makeBuffer(size) == Reset(NewBuffer(make(size)))

\* NewBufferPool: the pool of a size class; its New makes a buffer of that
\* size.
New == [size \in SizeClasses |-> makeBuffer(size)]

\* Slots of a size class that hold no live buffer.
FreeIds(size) == {i \in BufIds : bufs[size][i] = NoBuf}

LeastFree(size) == CHOOSE i \in FreeIds(size) : \A j \in FreeIds(size) : i <= j

\* sync.Pool.Get: an item of the pool, or none; Get "may choose to ignore the
\* pool and treat it as empty", and it finds none when the pool is empty.
\* BufferPool.Get then calls New.  The ids Get may return, with the buffer
\* New makes for a fresh one.
GetChoicesBlocking(size) ==
    {[id |-> i, fresh |-> FALSE] : i \in pools[size]}
GetChoices(size) ==
    {[id |-> i, fresh |-> FALSE] : i \in pools[size]}
    \cup (IF FreeIds(size) # {}
          THEN {[id |-> LeastFree(size), fresh |-> TRUE]}
          ELSE {})

GetLeavesInPool(size, g) ==
    /\ g \in GetChoices(size)
    /\ pools' = pools
    /\ bufs' = IF g.fresh
               THEN [bufs EXCEPT ![size][g.id] = New[size]]
               ELSE bufs

\* BufferPool.Get: take choice g; the pool and the buffers after it.
Get(size, g) ==
    /\ g \in GetChoices(size)
    /\ pools' = [pools EXCEPT ![size] = @ \ {g.id}]
    /\ bufs' = IF g.fresh
               THEN [bufs EXCEPT ![size][g.id] = New[size]]
               ELSE bufs

\* BufferPool.Put: a nil buffer is ignored; any other is reset and pooled.
PutNoReset(size, id) ==
    /\ pools' = [pools EXCEPT ![size] = IF id = 0 THEN @ ELSE @ \cup {id}]
    /\ bufs' = bufs
Put(size, id) ==
    IF id = 0
    THEN UNCHANGED poolVars
    ELSE /\ bufs' = [bufs EXCEPT ![size][id] = Reset(@)]
         /\ pools' = [pools EXCEPT ![size] = @ \cup {id}]

\* sync.Pool drops pooled items at garbage collection.
PoolGC(size, id) ==
    /\ id \in pools[size]
    /\ pools' = [pools EXCEPT ![size] = @ \ {id}]
    /\ bufs' = [bufs EXCEPT ![size][id] = NoBuf]

\* ----------------------------------------------------- texts and headers
HeaderNames == {"Content-Encoding", "Content-Type", "Location", "X-Trace"}

\* A header map: name -> its list of values (<<>>: the name is absent).
NoHeader == [k \in HeaderNames |-> <<>>]

\* strings.Join(v, ""): the values one after the other, nothing between them.
RECURSIVE JoinWith(_, _)
JoinWith(v, sep) ==
    IF Len(v) = 0 THEN <<>>
    ELSE IF Len(v) = 1 THEN v[1]
    ELSE v[1] \o sep \o JoinWith(Tail(v), sep)

Join(v) == JoinWith(v, <<>>)

\* http.Header.Get: the first value of the name, or the empty text.
HeaderGet(h, k) == IF Len(h[k]) = 0 THEN <<>> ELSE h[k][1]

\* http.Header.Set: the name now has exactly this one value.
HeaderSet(h, k, val) == [h EXCEPT ![k] = <<val>>]

copyHeaderComma(h, up) ==
    [k \in HeaderNames |->
        IF Len(up[k]) = 0 THEN h[k]
        ELSE IF Len(up[k]) < 2 THEN <<up[k][1]>>
        ELSE <<JoinWith(up[k], <<", ">>)>>]

\* ServeHTTP's header loop: one Set per upstream header.
copyHeader(h, up) ==
    [k \in HeaderNames |->
        IF Len(up[k]) = 0 THEN h[k]
        ELSE IF Len(up[k]) < 2 THEN <<up[k][1]>>
        ELSE <<Join(up[k])>>]

\* -------------------------------------------------------- request adapter
Hosts == {"example.com", "bad.example"}
Addrs == {"10.0.0.1:80", "10.0.0.2:80"}

NoReq == [host |-> "", tls |-> FALSE, url |-> [scheme |-> "", host |-> ""],
          requestURI |-> "", header |-> <<>>]

\* Inbound requests.  Origin-form: the URL has no scheme and no host, and
\* Host is the Host header.  Absolute-form: the URL declares a scheme and a
\* host, and the server sets Host to the URL's host.  The connection has a
\* TLS state or not, whatever the URL declares.
Requests ==
    {[host |-> h, tls |-> s, url |-> [scheme |-> "", host |-> ""],
      requestURI |-> "/p", header |-> <<"User-Agent: curl">>] :
        h \in Hosts, s \in BOOLEAN}
    \cup
    {[host |-> "example.com", tls |-> s, url |-> [scheme |-> sc, host |-> "example.com"],
      requestURI |-> "/p", header |-> <<"User-Agent: curl">>] :
        s \in BOOLEAN, sc \in {"http", "https"}}

\* What resolver.Get may return: an error, or an address list (maybe empty).
NilErr == <<>>
ResolverResults ==
    {[ips |-> i, err |-> NilErr] : i \in SeqsUpTo(Addrs, MaxIps)}
    \cup {[ips |-> <<>>, err |-> <<"no such host">>]}
NoResolve == [ips |-> <<>>, err |-> <<"not asked">>]

\* fmt.Errorf("domain %s resolver err: %s", req.Host, err)
resolverErr(host, e) == <<"domain ", host, " resolver err: ">> \o e

\* r.Clone(ctx): a new Request whose URL and Header are new objects (a deep
\* copy); only the TLS state is shared with the original.  req is the copy,
\* orig the original, aliased the fields whose storage the two share: a
\* write to an aliased field of the copy is a write to the original.
NoClone(rq) ==
    [req |-> rq, orig |-> rq, aliased |-> {"url", "header", "tls", "host", "requestURI"}]
Clone(rq) == [req |-> rq, orig |-> rq, aliased |-> {"tls"}]

\* req.URL.Scheme = s, req.URL.Host = h, req.RequestURI = u on a clone.
setScheme(c, s) ==
    [c EXCEPT !.req.url.scheme = s,
              !.orig.url.scheme = IF "url" \in c.aliased THEN s ELSE @]
setURLHost(c, h) ==
    [c EXCEPT !.req.url.host = h,
              !.orig.url.host = IF "url" \in c.aliased THEN h ELSE @]
setRequestURI(c, u) ==
    [c EXCEPT !.req.requestURI = u,
              !.orig.requestURI = IF "requestURI" \in c.aliased THEN u ELSE @]

\* Lines 126-130: the outbound scheme follows the connection's TLS state.
urlSchemeDeclared(rq) ==
    IF rq.url.scheme # "" THEN rq.url.scheme
    ELSE IF rq.tls THEN "https" ELSE "http"
urlScheme(rq) == IF rq.tls THEN "https" ELSE "http"

modifyRequestLast(rq, res) ==
    LET c0 == Clone(rq)
        c1 == setScheme(c0, urlScheme(c0.req))
        c2 == setRequestURI(setURLHost(c1, res.ips[Len(res.ips)]), "")
    IN  IF res.err # NilErr
        THEN [kind |-> "err", req |-> NoReq, r |-> c0.orig,
              err |-> resolverErr(c0.req.host, res.err)]
        ELSE IF Len(res.ips) = 0
        THEN [kind |-> "panic", req |-> NoReq, r |-> c1.orig, err |-> NilErr]
        ELSE [kind |-> "ok", req |-> c2.req, r |-> c2.orig, err |-> NilErr]

\* modifyRequest: clone the request, resolve its host, rewrite the clone.
\* kind "err": an error is returned; kind "panic": ips[0] is out of range,
\* after the scheme was written.  req is the request returned, r the inbound
\* request as the call leaves it.
modifyRequest(rq, res) ==
    LET c0 == Clone(rq)
        c1 == setScheme(c0, urlScheme(c0.req))
        c2 == setRequestURI(setURLHost(c1, res.ips[1]), "")
    IN  IF res.err # NilErr
        THEN [kind |-> "err", req |-> NoReq, r |-> c0.orig,
              err |-> resolverErr(c0.req.host, res.err)]
        ELSE IF Len(res.ips) = 0
        THEN [kind |-> "panic", req |-> NoReq, r |-> c1.orig, err |-> NilErr]
        ELSE [kind |-> "ok", req |-> c2.req, r |-> c2.orig, err |-> NilErr]

\* ------------------------------------------------------- upstream and client
NoResp == [status |-> 0, header |-> NoHeader, body |-> <<>>]

ContentEncodings == {<<>>, <<<<"identity">>>>, <<<<"gzip">>>>, <<<<"br">>>>, <<<<"zstd">>>>}
Traces == {<<>>, <<<<"a">>, <<"b">>>>}
StatusFound == 302
UpstreamStatuses == {StatusOK, StatusFound}

\* The responses an upstream may give; a redirect carries a Location.
UpstreamResponses ==
    {[status |-> st,
      header |-> [k \in HeaderNames |->
                    CASE k = "Content-Encoding" -> ce
                      [] k = "X-Trace" -> tr
                      [] k = "Location" -> IF st = StatusFound THEN <<<<"/next">>>> ELSE <<>>
                      [] OTHER -> <<>>],
      body   |-> b] :
        st \in UpstreamStatuses, ce \in ContentEncodings, tr \in Traces, b \in Payloads}

DispatchErrors == {"connection refused"}

IsRedirect(rs) == rs.status = StatusFound /\ Len(rs.header["Location"]) > 0

\* The client's CheckRedirect policy: the value the function returns.
CheckRedirect(rq, via) == "ErrUseLastResponse"

\* The ResponseWriter: status 0 until the header is written.
NoWriter == [status |-> 0, header |-> NoHeader, body |-> <<>>]

\* ResponseWriter.Write: the first write sends the header with status 200.
Write(wr, p) ==
    [wr EXCEPT !.status = IF @ = 0 THEN StatusOK ELSE @, !.body = @ \o p]

\* http.Error: a plain-text reply with the given status and message.
httpError(wr, msg, code) ==
    [wr EXCEPT !.header = HeaderSet(@, "Content-Type", <<"text/plain; charset=utf-8">>),
               !.status = IF @ = 0 THEN code ELSE @,
               !.body = @ \o msg]

\* ServeHTTP on an error of modifyRequest (lines 42-46) and of client.Do
\* (lines 55-59): err.Error() is the message.
onModifyErrorOK(wr, e) == httpError(wr, e, StatusOK)
onModifyError(wr, e) == httpError(wr, e, StatusInternalServerError)
onDoError(wr, e) == httpError(wr, e, StatusInternalServerError)

multiWriteSkipsClient(wr, b, chunk, k) ==
    [w |-> wr, b |-> BufWrite(b, chunk), ok |-> TRUE]

multiWriteDropsBuffer(wr, b, chunk, k) ==
    IF k = Len(chunk)
    THEN [w |-> Write(wr, chunk), b |-> b, ok |-> TRUE]
    ELSE [w |-> Write(wr, SubSeq(chunk, 1, k)), b |-> b, ok |-> FALSE]

multiWriteBufferFirst(wr, b, chunk, k) ==
    IF k = Len(chunk)
    THEN [w |-> Write(wr, chunk), b |-> BufWrite(b, chunk), ok |-> TRUE]
    ELSE [w |-> Write(wr, SubSeq(chunk, 1, k)), b |-> BufWrite(b, chunk), ok |-> FALSE]

\* io.MultiWriter(w, buffer).Write(chunk): the client first, then the buffer;
\* it stops at the first writer that fails.  k units reach the client; the
\* client write succeeded iff k = Len(chunk).
multiWrite(wr, b, chunk, k) ==
    IF k = Len(chunk)
    THEN [w |-> Write(wr, chunk), b |-> BufWrite(b, chunk), ok |-> TRUE]
    ELSE [w |-> Write(wr, SubSeq(chunk, 1, k)), b |-> b, ok |-> FALSE]

\* ------------------------------------------------------------ the decoder
\* gzip and brotli decompression of a run of units.
Inflate(s) == [i \in 1..Len(s) |-> <<"gunzip", s[i]>>]
BrotliDecode(s) == [i \in 1..Len(s) |-> <<"unbrotli", s[i]>>]

\* gzip.NewReader(b): reads the member header from b.  It fails on an empty
\* or malformed stream, and then returns a nil *gzip.Reader with the error.
gzipNewReader(b) ==
    LET hd == BufRead(b, 1)
    IN  IF hd.data = <<"gz">>
        THEN [reader |-> "gzip", b |-> hd.b, err |-> NilErr]
        ELSE [reader |-> "nilgzip", b |-> hd.b,
              err |-> IF hd.data = <<>> THEN <<"EOF">> ELSE <<"gzip: invalid header">>]

newReaderDefaultBrotli(enc, b) ==
    IF enc = <<"gzip">> THEN gzipNewReader(b)
    ELSE [reader |-> "br", b |-> b, err |-> NilErr]

\* The switch on Content-Encoding: the reader ServeHTTP ends up with.  A nil
\* *gzip.Reader stored in the io.Reader variable is a non-nil interface value.
newReader(enc, b) ==
    IF enc = <<"br">> THEN [reader |-> "br", b |-> b, err |-> NilErr]
    ELSE IF enc = <<"gzip">> THEN gzipNewReader(b)
    ELSE [reader |-> "buffer", b |-> b, err |-> NilErr]

\* Reading a reader to its end: a method call on the nil *gzip.Reader
\* dereferences nil and panics.
readAll(rd, b) ==
    CASE rd = "buffer" -> [data |-> Unread(b), b |-> BufRead(b, BufLen(b)).b, panic |-> FALSE]
      [] rd = "gzip" -> [data |-> Inflate(Unread(b)), b |-> BufRead(b, BufLen(b)).b, panic |-> FALSE]
      [] rd = "br" -> [data |-> BrotliDecode(Unread(b)), b |-> BufRead(b, BufLen(b)).b, panic |-> FALSE]
      [] OTHER -> [data |-> <<>>, b |-> b, panic |-> TRUE]

NoCtx == [host |-> "", uri |-> "", https |-> FALSE, read |-> FALSE, data |-> <<>>]

\* url.URL.RequestURI of the outbound request: the path of the inbound one.
RequestURI(rq, inbound) == inbound.requestURI

\* ------------------------------------------------------------- ServeHTTP
taskVars == <<pc, served, r, req, resolved, err, response, sent, w, buffer, nread, copyErr,
              reader, gets, puts, handlerCalls, ctx>>
proxyVars == <<pbuffer, taskVars>>
vars == <<bufs, pools, borrowed, pbuffer, taskVars>>

Ended(t) == pc[t] \in {"DONE", "ERROR", "PANIC"}

\* The server hands task t a new request; ServeHTTP's locals start nil.
Accept(t, rs) ==
    /\ pc[t] = "IDLE" \/ Ended(t)
    /\ served[t] < MaxRequests
    /\ \E rq \in rs : r' = [r EXCEPT ![t] = rq]
    /\ served' = [served EXCEPT ![t] = @ + 1]
    /\ pc' = [pc EXCEPT ![t] = "START"]
    /\ req' = [req EXCEPT ![t] = NoReq]
    /\ response' = [response EXCEPT ![t] = NoResp]
    /\ sent' = [sent EXCEPT ![t] = <<>>]
    /\ resolved' = [resolved EXCEPT ![t] = NoResolve]
    /\ err' = [err EXCEPT ![t] = NilErr]
    /\ w' = [w EXCEPT ![t] = NoWriter]
    /\ buffer' = [buffer EXCEPT ![t] = 0]
    /\ nread' = [nread EXCEPT ![t] = 0]
    /\ copyErr' = [copyErr EXCEPT ![t] = "none"]
    /\ reader' = [reader EXCEPT ![t] = "nil"]
    /\ gets' = [gets EXCEPT ![t] = 0]
    /\ puts' = [puts EXCEPT ![t] = 0]
    /\ handlerCalls' = [handlerCalls EXCEPT ![t] = 0]
    /\ ctx' = [ctx EXCEPT ![t] = NoCtx]
    /\ UNCHANGED <<bufs, pools, borrowed, pbuffer>>

\* Lines 41-46: adapt the request; on an error answer 500 and return.
ModifyRequest(t, rrs) ==
    /\ pc[t] = "START"
    /\ \E res \in rrs :
          LET m == modifyRequest(r[t], res)
          IN  /\ resolved' = [resolved EXCEPT ![t] = res]
              /\ r' = [r EXCEPT ![t] = m.r]
              /\ req' = [req EXCEPT ![t] = m.req]
              /\ err' = [err EXCEPT ![t] = m.err]
              /\ pc' = [pc EXCEPT ![t] =
                          CASE m.kind = "ok" -> "ADAPTED"
                            [] m.kind = "err" -> "ERROR"
                            [] OTHER -> "PANIC"]
              /\ w' = [w EXCEPT ![t] = IF m.kind = "err" THEN onModifyError(@, m.err) ELSE @]
    /\ UNCHANGED <<bufs, pools, borrowed, pbuffer, served, response, sent,
                   buffer, nread, copyErr, reader, gets, puts, handlerCalls, ctx>>

\* Lines 47-59: one client.Do.  The transport fails, or the upstream answers;
\* a redirect answer is followed only when CheckRedirect allows it.
Dispatch(t, urs) ==
    /\ pc[t] = "ADAPTED"
    /\ Len(sent[t]) < MaxRedirects
    /\ IF req[t].requestURI # ""
       THEN /\ err' = [err EXCEPT ![t] = <<"http: Request.RequestURI can't be set in client requests">>]
            /\ w' = [w EXCEPT ![t] = onDoError(@, err'[t])]
            /\ pc' = [pc EXCEPT ![t] = "ERROR"]
            /\ UNCHANGED <<response, req, sent>>
       ELSE /\ sent' = [sent EXCEPT ![t] = Append(@, req[t].url.host)]
            /\ \/ \E e \in DispatchErrors :
                     /\ err' = [err EXCEPT ![t] = <<e>>]
                     /\ w' = [w EXCEPT ![t] = onDoError(@, <<e>>)]
                     /\ pc' = [pc EXCEPT ![t] = "ERROR"]
                     /\ UNCHANGED <<response, req>>
               \/ \E rs \in urs :
                     IF IsRedirect(rs) /\ CheckRedirect(req[t], sent[t]) = "nil"
                     THEN /\ req' = [req EXCEPT ![t].url.host = "redirect.target"]
                          /\ UNCHANGED <<response, w, pc, err>>
                     ELSE /\ response' = [response EXCEPT ![t] = rs]
                          /\ pc' = [pc EXCEPT ![t] = "DISPATCHED"]
                          /\ UNCHANGED <<w, req, err>>
    /\ UNCHANGED <<bufs, pools, borrowed, pbuffer, served, r, resolved,
                   buffer, nread, copyErr, reader, gets, puts, handlerCalls, ctx>>

\* Lines 60-70: copy the response headers, take a buffer from the 4K pool.
BeginStream(t) ==
    /\ pc[t] = "DISPATCHED"
    /\ w' = [w EXCEPT ![t].header = copyHeader(@, response[t].header)]
    /\ \E g \in GetChoices(Size4k) :
          /\ Get(Size4k, g)
          /\ buffer' = [buffer EXCEPT ![t] = g.id]
    /\ gets' = [gets EXCEPT ![t] = @ + 1]
    /\ resolved' = [resolved EXCEPT ![t] = NoResolve]
    /\ pc' = [pc EXCEPT ![t] = "STREAMING"]
    /\ UNCHANGED <<borrowed, pbuffer, served, r, req, err, response, sent,
                   nread, copyErr, reader, puts, handlerCalls, ctx>>

\* Lines 73-84, run when io.Copy has returned: pick the reader.  Only the
\* gzip case assigns err.
Decode(t, b) ==
    LET enc == HeaderGet(response[t].header, "Content-Encoding")
        d == newReader(enc, b)
    IN  /\ reader' = [reader EXCEPT ![t] = d.reader]
        /\ err' = [err EXCEPT ![t] = IF enc = <<"gzip">> THEN d.err ELSE @]
        /\ bufs' = [bufs EXCEPT ![Size4k][buffer[t]] = d.b]
        /\ pc' = [pc EXCEPT ![t] = "DECODED"]

\* Line 72, one round of io.Copy: read a chunk of the upstream body and write
\* it to the fan-out writer.  The copy ends at end of body, at a read error
\* or at a failed write, and ServeHTTP goes on to the decoder.
Copy(t) ==
    /\ pc[t] = "STREAMING"
    /\ LET body == response[t].body
           left == Len(body) - nread[t]
           b   == bufs[Size4k][buffer[t]]
       IN  \/ /\ left > 0
              /\ \E n \in 1..left : \E k \in 0..n :
                    LET chunk == SubSeq(body, nread[t] + 1, nread[t] + n)
                        mw == multiWrite(w[t], b, chunk, k)
                    IN  /\ nread' = [nread EXCEPT ![t] = @ + n]
                        /\ w' = [w EXCEPT ![t] = mw.w]
                        /\ IF mw.ok
                           THEN /\ bufs' = [bufs EXCEPT ![Size4k][buffer[t]] = mw.b]
                                /\ UNCHANGED <<pc, copyErr, reader, err>>
                           ELSE /\ copyErr' = [copyErr EXCEPT ![t] = "write"]
                                /\ Decode(t, mw.b)
           \/ /\ left > 0
              /\ copyErr' = [copyErr EXCEPT ![t] = "read"]
              /\ Decode(t, b)
              /\ UNCHANGED <<nread, w>>
           \/ /\ left = 0
              /\ Decode(t, b)
              /\ UNCHANGED <<nread, w, copyErr>>
    /\ UNCHANGED <<pools, borrowed, pbuffer, served, r, req, resolved, response, sent,
                   buffer, gets, puts, handlerCalls, ctx>>

\* Lines 86-106: build the snapshots and call the handler, which may read
\* the body to its end.  A panic unwinds ServeHTTP: nothing after line 106
\* runs, and the server drops the connection.
Handler(t) ==
    /\ pc[t] = "DECODED"
    /\ handlerCalls' = [handlerCalls EXCEPT ![t] = @ + 1]
    /\ \E reads \in BOOLEAN :
          LET b == bufs[Size4k][buffer[t]]
              got == IF reads THEN readAll(reader[t], b)
                     ELSE [data |-> <<>>, b |-> b, panic |-> FALSE]
          IN  /\ ctx' = [ctx EXCEPT ![t] =
                           [host  |-> req[t].host,
                            uri   |-> RequestURI(req[t], r[t]),
                            https |-> req[t].url.scheme = "https",
                            read  |-> reads /\ ~got.panic,
                            data  |-> got.data]]
              /\ bufs' = [bufs EXCEPT ![Size4k][buffer[t]] = got.b]
              /\ pc' = [pc EXCEPT ![t] = IF got.panic THEN "PANIC" ELSE "HANDED_OFF"]
    /\ UNCHANGED <<pools, borrowed, pbuffer, served, r, req, resolved, err, response, sent,
                   w, buffer, nread, copyErr, reader, gets, puts>>

\* Lines 107-118: return the buffer to the pool; on return the server sends
\* the header with status 200 if no write has sent it yet.
Release(t) ==
    /\ pc[t] = "HANDED_OFF"
    /\ Put(Size4k, buffer[t])
    /\ puts' = [puts EXCEPT ![t] = @ + 1]
    /\ w' = [w EXCEPT ![t].status = IF @ = 0 THEN StatusOK ELSE @]
    /\ pc' = [pc EXCEPT ![t] = "DONE"]
    /\ UNCHANGED <<borrowed, pbuffer, served, r, req, resolved, err, response, sent,
                   buffer, nread, copyErr, reader, gets, handlerCalls, ctx>>

\* ------------------------------------------------ pool clients (any caller)
ClientGet(c, size) ==
    /\ borrowed[c] = NoLoan
    /\ \E g \in GetChoices(size) :
          /\ Get(size, g)
          /\ borrowed' = [borrowed EXCEPT ![c] = [size |-> size, id |-> g.id, fresh |-> g.fresh]]
    /\ UNCHANGED proxyVars

ClientWrite(c, u) ==
    /\ borrowed[c] # NoLoan
    /\ LET l == borrowed[c]
       IN  /\ BufLen(bufs[l.size][l.id]) < MaxWrite
           /\ bufs' = [bufs EXCEPT ![l.size][l.id] = BufWrite(@, <<u>>)]
    /\ UNCHANGED <<pools, borrowed, proxyVars>>

ClientPut(c) ==
    /\ borrowed[c] # NoLoan
    /\ Put(borrowed[c].size, borrowed[c].id)
    /\ borrowed' = [borrowed EXCEPT ![c] = NoLoan]
    /\ UNCHANGED proxyVars

ClientPutNil(c, size) ==
    /\ borrowed[c] = NoLoan
    /\ Put(size, 0)
    /\ UNCHANGED <<borrowed, proxyVars>>

GC(size) ==
    /\ \E id \in pools[size] : PoolGC(size, id)
    /\ UNCHANGED <<borrowed, proxyVars>>

\* --------------------------------------------------------- specifications
InitTasks ==
    /\ pc = [t \in Tasks |-> "IDLE"]
    /\ served = [t \in Tasks |-> 0]
    /\ r = [t \in Tasks |-> NoReq]
    /\ req = [t \in Tasks |-> NoReq]
    /\ response = [t \in Tasks |-> NoResp]
    /\ sent = [t \in Tasks |-> <<>>]
    /\ resolved = [t \in Tasks |-> NoResolve]
    /\ err = [t \in Tasks |-> NilErr]
    /\ w = [t \in Tasks |-> NoWriter]
    /\ buffer = [t \in Tasks |-> 0]
    /\ nread = [t \in Tasks |-> 0]
    /\ copyErr = [t \in Tasks |-> "none"]
    /\ reader = [t \in Tasks |-> "nil"]
    /\ gets = [t \in Tasks |-> 0]
    /\ puts = [t \in Tasks |-> 0]
    /\ handlerCalls = [t \in Tasks |-> 0]
    /\ ctx = [t \in Tasks |-> NoCtx]
    /\ borrowed = [c \in Clients |-> NoLoan]

\* The process after NewHttpProxy: the pools are empty but for the buffer
\* the constructor took from the 4K pool and keeps in HttpProxy.buffer.
Init ==
    /\ InitTasks
    /\ pbuffer = 1
    /\ bufs = [s \in SizeClasses |-> [i \in BufIds |->
                 IF s = Size4k /\ i = 1 THEN makeBuffer(Size4k) ELSE NoBuf]]
    /\ pools = [s \in SizeClasses |-> {}]

\* The pools alone, before any proxy is constructed.
InitPool ==
    /\ InitTasks
    /\ pbuffer = 0
    /\ bufs = [s \in SizeClasses |-> [i \in BufIds |-> NoBuf]]
    /\ pools = [s \in SizeClasses |-> {}]

\* Input sets cut down to the cases that differ in how the shared pool is
\* used.
SomeRequests ==
    {rq \in Requests : rq.host = "example.com" /\ ~rq.tls /\ rq.url.scheme = ""}
SomeResolverResults == {res \in ResolverResults : res.ips \in {<<>>, <<"10.0.0.1:80">>}}
SomeResponses ==
    {rs \in UpstreamResponses :
        /\ rs.status = StatusOK
        /\ rs.header["X-Trace"] = <<>>
        /\ rs.header["Content-Encoding"] \in {<<>>, <<<<"gzip">>>>}
        /\ rs.body = <<"x">>}

\* The inputs of task t's requests: the first request of a task ranges over
\* the full input sets; the requests after it, which meet the pool as the
\* first one left it, range over the cut-down sets.
InboundOf(t) == IF served[t] = 0 THEN Requests ELSE SomeRequests
ResolverOf(t) == IF served[t] <= 1 THEN ResolverResults ELSE SomeResolverResults
UpstreamOf(t) == IF served[t] <= 1 THEN UpstreamResponses ELSE SomeResponses

\* One request at a time.
Next ==
    \/ Accept(1, InboundOf(1))
    \/ ModifyRequest(1, ResolverOf(1))
    \/ Dispatch(1, UpstreamOf(1))
    \/ BeginStream(1)
    \/ Copy(1)
    \/ Handler(1)
    \/ Release(1)
    \/ GC(Size4k)

Spec == Init /\ [][Next]_vars

\* The same, with the scheduling of a request task: a task that can take
\* its next step takes it, the resolver, the upstream call and the handler
\* each returning.
SpecLive ==
    /\ Spec
    /\ WF_vars(ModifyRequest(1, ResolverOf(1)))
    /\ WF_vars(Dispatch(1, UpstreamOf(1)))
    /\ WF_vars(BeginStream(1))
    /\ WF_vars(Copy(1))
    /\ WF_vars(Handler(1))
    /\ WF_vars(Release(1))

\* Concurrent requests, one per task, over the cut-down input sets.
RECURSIVE Total(_, _)
Total(f, n) == IF n = 0 THEN 0 ELSE f[n] + Total(f, n - 1)

NextConc ==
    \/ \E t \in Tasks : Total(served, NumTasks) < MaxServed /\ Accept(t, SomeRequests)
    \/ \E t \in Tasks : ModifyRequest(t, SomeResolverResults)
    \/ \E t \in Tasks : Dispatch(t, SomeResponses)
    \/ \E t \in Tasks : BeginStream(t)
    \/ \E t \in Tasks : Copy(t)
    \/ \E t \in Tasks : Handler(t)
    \/ \E t \in Tasks : Release(t)
    \/ GC(Size4k)

SpecConc == Init /\ [][NextConc]_vars

\* The pools are separate objects that share no state: the pool-only
\* specification exercises one size class at a time, every class in turn.
Idle(size) == pools[size] = {} /\ \A i \in BufIds : bufs[size][i] = NoBuf

NextPool ==
    \/ \E c \in Clients, s \in SizeClasses :
          /\ \A o \in SizeClasses \ {s} : Idle(o)
          /\ ClientGet(c, s)
    \/ \E c \in Clients, u \in Units : ClientWrite(c, u)
    \/ \E c \in Clients : ClientPut(c)
    \/ \E c \in Clients, s \in SizeClasses : ClientPutNil(c, s)
    \/ \E s \in SizeClasses : GC(s)

SpecPool == InitPool /\ [][NextPool]_vars
\* ------------------------------------------------------------------ claims
IsPrefix(a, b) == Len(a) <= Len(b) /\ a = SubSeq(b, 1, Len(a))

\* C1: in every size-class pool, a buffer that Get has just returned to a
\* borrower has logical length zero and shows none of the units an earlier
\* borrower wrote, whatever Gets, writes and Puts came before.
C1_GetReturnsEmptyBuffer ==
    [][\A c \in Clients :
          (borrowed[c] = NoLoan /\ borrowed'[c] # NoLoan) =>
              LET l == borrowed'[c]
              IN  /\ BufLen(bufs'[l.size][l.id]) = 0
                  /\ Unread(bufs'[l.size][l.id]) = <<>>]_vars

\* C1 witness: a borrower holds a buffer that came out of the pool (not a
\* fresh allocation) while another borrower holds a written buffer.
C1_Witness ==
    \E c \in Clients, d \in Clients :
        /\ borrowed[c] # NoLoan /\ ~borrowed[c].fresh
        /\ BufLen(bufs[borrowed[c].size][borrowed[c].id]) = 0
        /\ borrowed[d] # NoLoan
        /\ BufLen(bufs[borrowed[d].size][borrowed[d].id]) = MaxWrite

\* C9: Get is enabled for a task that asks any pool for a buffer, in every
\* reachable pool state: it never blocks and never fails.
C9_GetNeverBlocks ==
    \A c \in Clients, s \in SizeClasses :
        borrowed[c] = NoLoan => ENABLED ClientGet(c, s)

\* C9 witness: the pool of a class is empty while one task holds a buffer of
\* it and another task, holding none, is about to call Get.
C9_Witness ==
    \E c \in Clients, d \in Clients, s \in SizeClasses :
        /\ borrowed[c] # NoLoan /\ borrowed[c].size = s
        /\ pools[s] = {}
        /\ borrowed[d] = NoLoan
\* The request of task t got as far as taking a buffer and streaming.
Streamed(t) == gets[t] > 0
\* io.Copy has returned.
CopyEnded(t) == Streamed(t) /\ pc[t] # "STREAMING"

\* C2: a request that took a buffer from the 4K pool has put it back exactly
\* once when its lifecycle has ended, on every exit path, and never more than
\* once before.
C2_ReleasedExactlyOnce ==
    \A t \in Tasks :
        /\ puts[t] <= gets[t]
        /\ (Ended(t) /\ Streamed(t)) => puts[t] = 1

\* modifyRequest returned an error: the resolver failed.
ResolverFailed(t) == resolved[t].err \notin {NilErr, NoResolve.err}

\* C3: once the resolver has failed for the request's host, the client has
\* been answered 500 with the error text (which names the host), the
\* lifecycle is in ERROR, and the request has taken no pooled buffer.
C3_ResolverFailureAnswers500 ==
    \A t \in Tasks :
        ResolverFailed(t) =>
            /\ pc[t] = "ERROR"
            /\ w[t].status = StatusInternalServerError
            /\ w[t].body = resolverErr(r[t].host, resolved[t].err)
            /\ gets[t] = 0
            /\ buffer[t] = 0

\* C3 witness: the lookup of bad.example failed and the request has ended.
C3_Witness ==
    \E t \in Tasks :
        /\ r[t].host = "bad.example"
        /\ resolved[t].err = <<"no such host">>
        /\ pc[t] = "ERROR"
        /\ w[t].status = StatusInternalServerError

\* client.Do returned an error: no response, and err is set.
DispatchFailed(t) == sent[t] # <<>> /\ response[t] = NoResp /\ err[t] # NilErr

\* modifyRequest was run and produced no adapted request.
AdaptFailed(t) == resolved[t] # NoResolve /\ req[t] = NoReq

\* What C4 says of a failed request: ERROR, a 500 whose body is the error
\* message, nothing of an upstream response relayed, no buffer taken, the
\* handler not called, at most one upstream request.
FailedCleanly(t) ==
    /\ pc[t] = "ERROR"
    /\ w[t].status = StatusInternalServerError
    /\ w[t].body = err[t] /\ err[t] # NilErr
    /\ \A k \in HeaderNames \ {"Content-Type"} : w[t].header[k] = <<>>
    /\ response[t] = NoResp
    /\ buffer[t] = 0 /\ gets[t] = 0
    /\ handlerCalls[t] = 0
    /\ Len(sent[t]) <= 1

\* C4: after a failure of the adaptation or of the upstream call the request
\* is in ERROR and the client has a 500 with the error message; nothing was
\* relayed, no buffer taken, the handler not called, no second attempt made.
C4_FailureIsTerminal ==
    \A t \in Tasks : (AdaptFailed(t) \/ DispatchFailed(t)) => FailedCleanly(t)

\* The part of C4 that holds: it holds of the failures that modifyRequest
\* and client.Do return as errors, and ERROR is left only when the task is
\* handed its next request.
ErrorReturnIsTerminal ==
    /\ [](\A t \in Tasks : (ResolverFailed(t) \/ DispatchFailed(t)) => FailedCleanly(t))
    /\ [][\A t \in Tasks :
            (pc[t] = "ERROR" /\ served'[t] = served[t]) =>
                /\ pc'[t] = "ERROR"
                /\ w'[t] = w[t] /\ sent'[t] = sent[t] /\ response'[t] = response[t]
                /\ buffer'[t] = buffer[t] /\ gets'[t] = gets[t]
                /\ handlerCalls'[t] = handlerCalls[t]]_vars

\* C5: a successful lookup with an empty address list is handled as a
\* resolution failure: the request is in ERROR with an error and a 500.
C5_EmptyListIsResolutionError ==
    \A t \in Tasks :
        resolved[t] = [ips |-> <<>>, err |-> NilErr] =>
            /\ pc[t] = "ERROR"
            /\ err[t] # NilErr
            /\ w[t].status = StatusInternalServerError

\* C6 as stated: once the copy has ended, the client has exactly the
\* upstream body, whatever the content encoding.
C6_ClientBytesIdentical ==
    \A t \in Tasks : CopyEnded(t) => w[t].body = response[t].body

\* C6 amended: what the client has is always a prefix of the upstream body:
\* the units read so far while the copy runs, and the whole body once the
\* copy has ended without a read or write error, for every content encoding;
\* decoding and the handler do not change it.
C6_ClientBytesPrefix ==
    \A t \in Tasks :
        Streamed(t) =>
            /\ IsPrefix(w[t].body, response[t].body)
            /\ pc[t] = "STREAMING" => w[t].body = SubSeq(response[t].body, 1, nread[t])
            /\ (CopyEnded(t) /\ copyErr[t] = "none") => w[t].body = response[t].body

\* C6 witness: a gzip body of full length was copied without error, decoded
\* and read by the handler, and the request is done.
C6_Witness ==
    \E t \in Tasks :
        /\ pc[t] = "DONE" /\ copyErr[t] = "none"
        /\ reader[t] = "gzip" /\ ctx[t].read
        /\ Len(response[t].body) = MaxBody
        /\ w[t].body = response[t].body
        /\ ctx[t].data # response[t].body

\* C7: a redirect answer of the upstream is not followed, and when the
\* request is done the client has that answer: one upstream request was
\* sent, and the client's status and Location are the upstream's.
C7_RawRedirectRelayed ==
    \A t \in Tasks :
        (IsRedirect(response[t]) /\ pc[t] = "DONE") =>
            /\ Len(sent[t]) = 1
            /\ w[t].status = response[t].status
            /\ w[t].header["Location"] = response[t].header["Location"]

\* C8: after gzip.NewReader has failed the request does not crash, and when
\* it has ended it is DONE with one handler call and the buffer released.
C8_DecodeFailureNonFatal ==
    \A t \in Tasks :
        reader[t] = "nilgzip" =>
            /\ pc[t] # "PANIC"
            /\ Ended(t) => (pc[t] = "DONE" /\ handlerCalls[t] = 1 /\ puts[t] = 1)

\* C10: when the resolver returned a non-empty list, the authority of the
\* adapted request is its first address, and every upstream request of the
\* lifecycle goes to that authority.
C10_FirstAddressOnly ==
    \A t \in Tasks :
        /\ (resolved[t].err = NilErr /\ resolved[t].ips # <<>>) =>
               req[t].url.host = resolved[t].ips[1]
        /\ \A i \in 1..Len(sent[t]) : sent[t][i] = req[t].url.host

\* C10 witness: the resolver returned two different addresses and the
\* upstream request went to the first.
C10_Witness ==
    \E t \in Tasks :
        /\ pc[t] = "DISPATCHED"
        /\ Len(resolved[t].ips) = 2
        /\ resolved[t].ips[1] # resolved[t].ips[2]
        /\ sent[t] = <<resolved[t].ips[1]>>

\* C11: the scheme of every successfully adapted request is https when the
\* inbound connection had a TLS state and http when it had none, whatever
\* scheme the inbound URL declared.
C11_SchemeFollowsTLS ==
    \A t \in Tasks :
        req[t] # NoReq =>
            req[t].url.scheme = (IF r[t].tls THEN "https" ELSE "http")

\* C11 witness: a request whose URL declared https came in over a connection
\* without TLS and went out as http.
C11_Witness ==
    \E t \in Tasks :
        /\ pc[t] = "DISPATCHED"
        /\ ~r[t].tls /\ r[t].url.scheme = "https"
        /\ req[t].url.scheme = "http"

\* The texts of a list one after the other.
RECURSIVE Concat(_)
Concat(v) == IF v = <<>> THEN <<>> ELSE Head(v) \o Concat(Tail(v))

\* C12: once the headers are copied, every header of the upstream response
\* is on the client response under the same name with exactly one value: the
\* value itself when the upstream had one, all values in order with nothing
\* between them when it had two or more (X-Trace [a, b] becomes ab).
C12_HeaderValuesCoalesced ==
    \A t \in Tasks :
        Streamed(t) =>
            /\ \A k \in HeaderNames :
                  LET v == response[t].header[k]
                  IN  Len(v) >= 1 =>
                        /\ Len(w[t].header[k]) = 1
                        /\ Len(v) = 1 => w[t].header[k][1] = v[1]
                        /\ Len(v) >= 2 => w[t].header[k][1] = Concat(v)
            /\ response[t].header["X-Trace"] = <<<<"a">>, <<"b">>>> =>
                  w[t].header["X-Trace"] = <<<<"a", "b">>>>

\* C12 witness: an upstream response with X-Trace [a, b] and a one-valued
\* Content-Encoding was relayed and the request is done.
C12_Witness ==
    \E t \in Tasks :
        /\ pc[t] = "DONE"
        /\ response[t].header["X-Trace"] = <<<<"a">>, <<"b">>>>
        /\ response[t].header["Content-Encoding"] = <<<<"zstd">>>>
        /\ w[t].header["X-Trace"] = <<<<"a", "b">>>>
        /\ w[t].header["Content-Encoding"] = <<<<"zstd">>>>

\* The response's Content-Encoding is neither gzip nor br.
PassThrough(t) ==
    HeaderGet(response[t].header, "Content-Encoding") \notin {<<"gzip">>, <<"br">>}

\* C13: when the content encoding is identity, absent or any token other
\* than gzip and br, the reader handed to the handler is the buffer itself:
\* reading it to the end yields the buffered units, unchanged and in order.
C13_PassThroughReader ==
    \A t \in Tasks :
        LET b == bufs[Size4k][buffer[t]]
        IN  /\ (pc[t] = "DECODED" /\ PassThrough(t)) =>
                  /\ reader[t] = "buffer"
                  /\ readAll(reader[t], b).data = b.buf
            /\ (pc[t] = "HANDED_OFF" /\ PassThrough(t) /\ ctx[t].read) =>
                  ctx[t].data = b.buf

\* C13 witness: a body of full length that starts like a gzip stream, sent
\* with the unrecognized token zstd, was read by the handler as it is.
C13_Witness ==
    \E t \in Tasks :
        /\ pc[t] = "HANDED_OFF" /\ ctx[t].read
        /\ response[t].header["Content-Encoding"] = <<<<"zstd">>>>
        /\ Len(response[t].body) = MaxBody /\ response[t].body[1] = "gz"
        /\ ctx[t].data = response[t].body

\* No request is in flight, and at least one has been served.
AtRest ==
    /\ \A t \in Tasks : pc[t] \in {"IDLE", "DONE", "ERROR"}
    /\ \E t \in Tasks : pc[t] # "IDLE"

\* C14: whenever no request is in flight the proxy holds no pooled buffer:
\* the buffers it has taken from the 4K pool, the one taken at construction
\* included, are as many as it has put back, and every live 4K buffer is in
\* the pool.
C14_NoBufferHeldAtRest ==
    AtRest =>
        /\ (IF pbuffer # 0 THEN 1 ELSE 0) + Total(gets, NumTasks) = Total(puts, NumTasks)
        /\ \A i \in BufIds : bufs[Size4k][i] # NoBuf => i \in pools[Size4k]

\* C15 as stated: when the lifecycle is in DECODED, where the handler is
\* invoked, the buffered copy is the complete upstream body, also after a
\* failed client write or upstream read.
C15_FullBodyAtHandOff ==
    \A t \in Tasks :
        pc[t] = "DECODED" => bufs[Size4k][buffer[t]].buf = response[t].body

\* C15 amended: when the handler is invoked the buffered copy is a prefix of
\* the upstream body; it is the complete body exactly when the copy ended
\* without a write or read error, and a proper prefix otherwise.
C15_BufferedCopyAtHandOff ==
    \A t \in Tasks :
        pc[t] = "DECODED" =>
            LET b == bufs[Size4k][buffer[t]]
            IN  /\ IsPrefix(b.buf, response[t].body)
                /\ copyErr[t] = "none" <=> b.buf = response[t].body

\* C15 witness: the first chunk of a two-unit body was copied, the write of
\* the second to the client failed, and the handler is about to be invoked.
C15_Witness ==
    \E t \in Tasks :
        /\ pc[t] = "DECODED" /\ copyErr[t] = "write"
        /\ Len(response[t].body) = MaxBody
        /\ Len(bufs[Size4k][buffer[t]].buf) = MaxBody - 1

\* gzip.NewReader returned an error for the response of task t.
GzipFailed(t) ==
    /\ HeaderGet(response[t].header, "Content-Encoding") = <<"gzip">>
    /\ CopyEnded(t) /\ err[t] # NilErr

\* C16: after gzip.NewReader has failed, the reader in the context given to
\* the handler can be read without fault, and a handler that reads it
\* returns: the request task does not crash.
C16_ReaderReadableAfterGzipFailure ==
    \A t \in Tasks :
        GzipFailed(t) =>
            /\ pc[t] = "DECODED" =>
                  ~readAll(reader[t], bufs[Size4k][buffer[t]]).panic
            /\ handlerCalls[t] > 0 => pc[t] \in {"HANDED_OFF", "DONE"}

\* The request of task t has taken its buffer and not yet put it back.
Holding(t) == gets[t] > 0 /\ puts[t] = 0

\* C17: under every interleaving of the request tasks, the buffer a request
\* holds is a live buffer that is not in the pool, not the constructor's and
\* not held by any other request; a request puts its buffer back only after
\* its handler call has returned; and a handler call touches no buffer but
\* the one its own request holds.
C17_ExclusiveBuffer ==
    /\ [](\A t \in Tasks :
            Holding(t) =>
                /\ buffer[t] \in BufIds
                /\ bufs[Size4k][buffer[t]] # NoBuf
                /\ buffer[t] \notin pools[Size4k]
                /\ buffer[t] # pbuffer
                /\ \A u \in Tasks \ {t} : Holding(u) => buffer[u] # buffer[t])
    /\ [](\A t \in Tasks : puts[t] > 0 => (handlerCalls[t] = 1 /\ pc[t] = "DONE"))
    /\ [][\A t \in Tasks :
            handlerCalls'[t] = handlerCalls[t] + 1 =>
                /\ Holding(t) /\ Holding(t)'
                /\ buffer[t] \notin pools[Size4k]
                /\ \A i \in BufIds \ {buffer[t]} :
                      bufs'[Size4k][i] = bufs[Size4k][i]]_vars

\* C17 witness: two requests hold different buffers at the same time, one
\* whose handler has read its body and one whose handler is about to be
\* called.
C17_Witness ==
    \E t \in Tasks, u \in Tasks :
        /\ t # u
        /\ pc[t] = "HANDED_OFF" /\ ctx[t].read
        /\ pc[u] = "DECODED"
        /\ Holding(t) /\ Holding(u)
        /\ buffer[t] # buffer[u]

\* C18: the step in which modifyRequest runs, whether it returns a request
\* or an error, leaves the inbound request as it was (scheme, URL host,
\* Host, request-target string, headers), and so does every later step of
\* the same request.
C18_InboundUntouched ==
    [][\A t \in Tasks :
          served'[t] = served[t] =>
              /\ r'[t].url = r[t].url
              /\ r'[t].host = r[t].host
              /\ r'[t].requestURI = r[t].requestURI
              /\ r'[t].header = r[t].header
              /\ r'[t] = r[t]]_vars

\* C18 witness: an absolute-form request that declared https was adapted:
\* the clone has another scheme, another URL host and no request-target
\* string, the inbound request still has its own.
C18_Witness ==
    \E t \in Tasks :
        /\ pc[t] = "ADAPTED"
        /\ r[t].url = [scheme |-> "https", host |-> "example.com"]
        /\ r[t].requestURI = "/p"
        /\ req[t].url = [scheme |-> "http", host |-> "10.0.0.2:80"]
        /\ req[t].requestURI = ""

\* The handler call of task t's request did not return.
HandlerCrashed(t) == pc[t] = "PANIC" /\ handlerCalls[t] > 0

\* C19: every request that has started eventually ends in DONE or ERROR,
\* provided the resolver, the upstream call and the handler each return; it
\* never stops in another state.
C19_EventuallyEnds ==
    \A t \in Tasks :
        (pc[t] = "START") ~> (pc[t] \in {"DONE", "ERROR"} \/ HandlerCrashed(t))

\* What holds instead: every started request ends in DONE, in ERROR or in a
\* crash of its task, and the states in between are passed in order.
LifecycleEndsOrCrashes ==
    /\ \A t \in Tasks : (pc[t] = "START") ~> Ended(t)
    /\ [][\A t \in Tasks :
            pc'[t] # pc[t] =>
                \/ pc'[t] = "START" /\ (pc[t] = "IDLE" \/ Ended(t))
                \/ pc[t] = "START" /\ pc'[t] \in {"ADAPTED", "ERROR", "PANIC"}
                \/ pc[t] = "ADAPTED" /\ pc'[t] \in {"DISPATCHED", "ERROR"}
                \/ pc[t] = "DISPATCHED" /\ pc'[t] = "STREAMING"
                \/ pc[t] = "STREAMING" /\ pc'[t] = "DECODED"
                \/ pc[t] = "DECODED" /\ pc'[t] \in {"HANDED_OFF", "PANIC"}
                \/ pc[t] = "HANDED_OFF" /\ pc'[t] = "DONE"]_vars

\* C20: while a request holds its buffer, the buffered copy is a prefix of
\* the upstream body and of what the client writer has taken, and is no
\* longer than the units offered to the client so far; what a handler reads
\* through the pass-through reader was written to the client before.
C20_BufferBehindClient ==
    \A t \in Tasks :
        Holding(t) =>
            LET b == bufs[Size4k][buffer[t]]
            IN  /\ IsPrefix(b.buf, response[t].body)
                /\ IsPrefix(b.buf, w[t].body)
                /\ Len(b.buf) <= nread[t]
                /\ (ctx[t].read /\ reader[t] = "buffer") => IsPrefix(ctx[t].data, w[t].body)

\* C20 witness: the client writer took one unit of a two-unit chunk and
\* failed; the buffer got nothing of the chunk, and the handler read the
\* empty buffer.
C20_Witness ==
    \E t \in Tasks :
        /\ pc[t] = "HANDED_OFF" /\ copyErr[t] = "write"
        /\ nread[t] = MaxBody
        /\ Len(w[t].body) = 1
        /\ bufs[Size4k][buffer[t]].buf = <<>>
        /\ ctx[t].read /\ ctx[t].data = <<>>
====
